---- MODULE Spec2Model ----
(***************************************************************************)
(* LCR-Meter (src/main.py): the measurement orchestrator of LCRMeterWindow, *)
(* its one-shot RMSWorker / PhaseWorker tasks, the periodic live-readout    *)
(* poll and the signal generator thread of OhmMeterBackend.                 *)
(*                                                                         *)
(* Threads.  Every handler of LCRMeterWindow runs on the Qt main thread and *)
(* is one atomic action, except stop_signal_generation, whose join() blocks *)
(* the main thread while the other threads keep running (ui_pc).  A worker  *)
(* runs on its own QThread: it reads chunks from the shared input stream    *)
(* and then emits finished(value), which Qt queues to the main thread; the  *)
(* connected slot is a later main-thread action.  The generator thread is   *)
(* a daemon thread looping on the generating_signal flag.                   *)
(*                                                                         *)
(* Units.  Voltages are integers in units of 50 microvolt (0.0001 V = 2),   *)
(* resistances in ohm, reported resistances in 1/100 ohm (the "%.2f" of the *)
(* result label), the calibration factor in units of 0.00001 (0.1 = 10000), *)
(* frequencies in Hz, amplitudes in tenths of full scale.                   *)
(* Purely cosmetic widgets (freq_label, amp_label, sig_gen_btn text, the    *)
(* unit and recommendation labels, the live info labels, the plot) are not  *)
(* state.                                                                   *)
(***************************************************************************)
EXTENDS Integers, Sequences, FiniteSets, Bags, TLC

VARIABLES
    app_alive,            \* the process is running (not aborted by Qt)
    ui_pc,                \* main thread: "ready" | "joining" (inside join())
    current_mode,         \* LCRMeterWindow.current_mode
    measurement_state,    \* LCRMeterWindow.measurement_state
    measured_vin_rms,     \* captured readings: << >> is None, <<v>> a value
    measured_vin_phase,
    measured_vin_low,
    measured_vout_low,
    measured_vin_high,
    measured_vout_high,
    action_enabled,       \* action_button.isEnabled()
    action_text,          \* action_button.text()
    status_label,         \* status_label.text(), formatted numbers left out
    result_label,         \* result_label.text(): [kind, val]
    known_resistor,       \* backend.known_resistor
    known_r_input,        \* text of the known-resistor line edit
    calibration_factor,   \* backend.calibration_factor
    calib_input,          \* text of the calibration line edit of the plot window
    plot_window,          \* LCRMeterWindow.plot_window: "None" | "visible" | "hidden"
    generating_signal,    \* backend.generating_signal
    signal_frequency,     \* backend.signal_frequency
    signal_amplitude,     \* backend.signal_amplitude
    signal_thread,        \* backend.signal_thread: "None" or the thread's pc
    orphan_threads,       \* generator threads no longer referenced, by pc
    workers,              \* bag of measurement tasks not yet delivered
    stable_rms,           \* a call of get_stable_rms followed chunk by chunk
    output_chunk          \* the chunk last written to output_stream

vars == <<app_alive, ui_pc, current_mode, measurement_state, measured_vin_rms,
          measured_vin_phase, measured_vin_low, measured_vout_low,
          measured_vin_high, measured_vout_high, action_enabled, action_text,
          status_label, result_label, known_resistor, known_r_input,
          calibration_factor, calib_input, plot_window, generating_signal, signal_frequency, signal_amplitude,
          signal_thread, orphan_threads, workers, stable_rms, output_chunk>>

readings == <<measured_vin_rms, measured_vin_phase, measured_vin_low,
              measured_vout_low, measured_vin_high, measured_vout_high>>

sessionVars == <<measurement_state, measured_vin_rms, measured_vin_phase,
                 measured_vin_low, measured_vout_low, measured_vin_high,
                 measured_vout_high, action_enabled, action_text>>

genVars == <<generating_signal, signal_thread, orphan_threads, ui_pc>>

sigVars == <<signal_frequency, signal_amplitude>>

plotVars == <<calibration_factor, calib_input, plot_window>>

calVars == <<known_resistor, known_r_input, plotVars>>

audioVars == <<stable_rms, output_chunk>>

----------------------------------------------------------------------------
(* Program constants *)

VIN_MIN == 2
f_low == 200
f_high == 2000
INIT_FREQUENCY == 1000
RESET_FREQUENCY == 1000
FREQ_MIN == 20
FREQ_MAX == 20000
FREQ_STEP == 100
INIT_AMPLITUDE == 9
AMP_MIN == 1
AMP_MAX == 10
AMP_STEP == 1
INIT_KNOWN_RESISTOR == 1000
RATE == 44100
CHUNK == 1024
KNOWN_R_MIN == 1
KNOWN_R_MAX == 1000000
INIT_CALIBRATION == 10000
CALIB_MIN == 10
CALIB_MAX == 1000000

(* Bounds of the model *)

MaxInFlight == 1
MaxTasks == 2
MaxOrphans == 1

----------------------------------------------------------------------------
(* Values *)

None == << >>
Some(v) == <<v>>
Val(x) == x[1]

Modes == {"R", "C", "L", "AUTO"}

States == {"IDLE", "WAITING_FOR_VIN_RMS", "WAITING_FOR_VOUT_RMS",
           "WAITING_FOR_VIN_PHASE", "WAITING_FOR_VOUT_PHASE",
           "AUTO_WAITING_FOR_VIN_LOW", "AUTO_WAITING_FOR_VOUT_LOW",
           "AUTO_WAITING_FOR_VIN_HIGH", "AUTO_WAITING_FOR_VOUT_HIGH"}

\* What get_stable_rms can deliver: a mean of non-negative chunk RMS values.
RmsValues == {1, 2, 3}

\* The same with 0 V, 2.5 V and 5 V, for the result formulas.
RmsReadings == {0, 1, 2, 3, 50000, 100000}

\* What get_phase_of_signal can deliver, in degrees: (-180, 180].
PhaseValues == {-10, 0, 5, 180}

\* The choices of AutoDetectMethodDialog: a method, or the dialog closed.
DialogChoices == {"frequency", "phase", "rejected"}

Label(k) == [kind |-> k, val |-> 0]
Number(v) == [kind |-> "number", val |-> v]

Max(a, b) == IF a >= b THEN a ELSE b
Min(a, b) == IF a <= b THEN a ELSE b
Abs(a) == IF a >= 0 THEN a ELSE -a

----------------------------------------------------------------------------
(* Measurement tasks: start_rms_measurement / start_phase_measurement *)

\* The completion slot connected for the step the session is waiting in.
SlotOf(state) ==
    CASE state = "AUTO_WAITING_FOR_VIN_LOW" -> "on_vin_low_measured"
      [] state = "AUTO_WAITING_FOR_VOUT_LOW" -> "on_vout_low_measured"
      [] state = "AUTO_WAITING_FOR_VIN_HIGH" -> "on_vin_high_measured"
      [] state = "AUTO_WAITING_FOR_VOUT_HIGH" -> "on_vout_high_measured"
      [] state = "WAITING_FOR_VIN_RMS" -> "on_vin_rms_measured"
      [] state = "WAITING_FOR_VOUT_RMS" -> "on_vout_rms_measured"
      [] state = "WAITING_FOR_VIN_PHASE" -> "on_vin_phase_measured"
      [] state = "WAITING_FOR_VOUT_PHASE" -> "on_vout_phase_measured"

\* The text shown while the task of a step runs.
MeasuringText(state) ==
    CASE state = "AUTO_WAITING_FOR_VIN_LOW" -> "Measuring Vin at f_low..."
      [] state = "AUTO_WAITING_FOR_VOUT_LOW" -> "Measuring Vout at f_low..."
      [] state = "AUTO_WAITING_FOR_VIN_HIGH" -> "Measuring Vin at f_high..."
      [] state = "AUTO_WAITING_FOR_VOUT_HIGH" -> "Measuring Vout at f_high..."
      [] state = "WAITING_FOR_VIN_RMS" -> "Measuring Vin... (2 seconds)"
      [] state = "WAITING_FOR_VOUT_RMS" -> "Measuring Vout... (2 seconds)"
      [] state = "WAITING_FOR_VIN_PHASE" -> "Measuring Vin Phase..."
      [] state = "WAITING_FOR_VOUT_PHASE" -> "Measuring Vout Phase..."

PhaseStates == {"WAITING_FOR_VIN_PHASE", "WAITING_FOR_VOUT_PHASE"}

InFlight == BagCardinality(workers)

Task(kind, slot) == [kind |-> kind, slot |-> slot, st |-> "started", ref |-> TRUE]

\* self.thread and self.worker are rebound to the new objects.  When the task
\* they referred to is still in flight, its QThread and worker lose their last
\* Python reference while running: Qt may abort the process ("QThread:
\* Destroyed while thread is still running") or the task may run on.
Rebind(kind, slot) ==
    IF \E w \in BagToSet(workers) : w.ref
    THEN \E w \in BagToSet(workers) :
            /\ w.ref
            /\ workers' = ((workers (-) SetToBag({w}))
                             (+) SetToBag({[w EXCEPT !.ref = FALSE]}))
                             (+) SetToBag({Task(kind, slot)})
            /\ app_alive' \in BOOLEAN
    ELSE /\ workers' = workers (+) SetToBag({Task(kind, slot)})
         /\ app_alive' = app_alive

start_rms_measurement(slot_to_connect) == Rebind("rms", slot_to_connect)

start_phase_measurement(slot_to_connect) == Rebind("phase", slot_to_connect)

\* A step of a running task replaces its record in the bag.
Advance(w, st) ==
    workers' = (workers (-) SetToBag({w})) (+) SetToBag({[w EXCEPT !.st = st]})

\* The queued finished(value) of a task is handed to its slot: the task is over.
Delivered(slot) ==
    \E w \in BagToSet(workers) :
        /\ w.slot = slot
        /\ w.st = "finished"
        /\ workers' = workers (-) SetToBag({w})

----------------------------------------------------------------------------
(* LCRMeterWindow: session reset and mode selection *)

reset_keeps_vin_low ==
    /\ action_enabled' = TRUE
    /\ action_text' = "MEASURE"
    /\ measurement_state' = "IDLE"
    /\ measured_vin_rms' = None
    /\ measured_vin_phase' = None
    /\ UNCHANGED measured_vin_low
    /\ measured_vout_low' = None
    /\ measured_vin_high' = None
    /\ measured_vout_high' = None

reset_measurement_state ==
    /\ action_enabled' = TRUE
    /\ action_text' = "MEASURE"
    /\ measurement_state' = "IDLE"
    /\ measured_vin_rms' = None
    /\ measured_vin_phase' = None
    /\ measured_vin_low' = None
    /\ measured_vout_low' = None
    /\ measured_vin_high' = None
    /\ measured_vout_high' = None

MainThread == app_alive /\ ui_pc = "ready"

set_measurement_mode(mode) ==
    /\ MainThread
    /\ reset_measurement_state
    /\ current_mode' = mode
    /\ result_label' = Label("---")
    /\ status_label' = "Ready"
    /\ UNCHANGED <<audioVars, app_alive, genVars, sigVars, calVars, workers>>

----------------------------------------------------------------------------
(* LCRMeterWindow.on_action_button_clicked *)

\* The generator is off: the click is refused with a message.
RejectStart ==
    /\ status_label' = "Error: Turn on Signal Generator first."
    /\ UNCHANGED <<result_label, sessionVars, sigVars>>

\* AUTO: the modal method dialog decides the flow, or is closed.
StartAuto(choice) ==
    CASE choice = "frequency" ->
            /\ signal_frequency' = f_low
            /\ status_label' = "STEP 1: Connect probes across source (Vin) at f_low."
            /\ action_text' = "Continue"
            /\ measurement_state' = "AUTO_WAITING_FOR_VIN_LOW"
            /\ UNCHANGED <<readings, action_enabled, signal_amplitude>>
      [] choice = "phase" ->
            /\ status_label' = "STEP 1: Connect probes across signal source (Vin)."
            /\ action_text' = "Continue"
            /\ measurement_state' = "WAITING_FOR_VIN_PHASE"
            /\ UNCHANGED <<readings, action_enabled, sigVars>>
      [] choice = "rejected" ->
            UNCHANGED <<status_label, sessionVars, sigVars>>

StartSession ==
    /\ result_label' = Label("---")
    /\ IF current_mode = "AUTO"
       THEN \E choice \in DialogChoices : StartAuto(choice)
       ELSE /\ status_label' = "STEP 1: Connect probes across signal source (Vin)."
            /\ action_text' = "Continue"
            /\ measurement_state' = "WAITING_FOR_VIN_RMS"
            /\ UNCHANGED <<readings, action_enabled, sigVars>>

ClickIdle_unguarded ==
    /\ measurement_state = "IDLE"
    /\ StartSession
    /\ UNCHANGED <<app_alive, workers>>

ClickIdle ==
    /\ measurement_state = "IDLE"
    /\ IF ~generating_signal THEN RejectStart ELSE StartSession
    /\ UNCHANGED <<app_alive, workers>>

\* "Continue" in a waiting step: disable the button and launch the step's task.
ClickContinue ==
    /\ measurement_state # "IDLE"
    /\ status_label' = MeasuringText(measurement_state)
    /\ action_enabled' = FALSE
    /\ IF measurement_state \in PhaseStates
       THEN start_phase_measurement(SlotOf(measurement_state))
       ELSE start_rms_measurement(SlotOf(measurement_state))
    /\ UNCHANGED <<measurement_state, readings, action_text, result_label, sigVars>>

\* A disabled QPushButton emits no clicked().
on_action_button_clicked ==
    /\ MainThread
    /\ action_enabled
    /\ (ClickIdle \/ ClickContinue)
    /\ UNCHANGED <<audioVars, current_mode, genVars, calVars>>

----------------------------------------------------------------------------
(* Result formulas *)

\* p / q (q > 0) rounded to the nearest integer, ties to even: what "%.2f"
\* shows of a value, in hundredths.
RoundHalfEven(p, q) ==
    LET fl == p \div q
        rem == p % q
    IN  IF 2 * rem < q THEN fl
        ELSE IF 2 * rem > q THEN fl + 1
        ELSE IF fl % 2 = 0 THEN fl ELSE fl + 1

RECURSIVE GCD(_, _)
GCD(a, b) == IF b = 0 THEN a ELSE GCD(b, a % b)

Resistance_no_subtraction(R_known, vin, vout) ==
    Number(RoundHalfEven(100 * R_known * (vout \div GCD(vout, vin)),
                         vin \div GCD(vout, vin)))

\* resistance = R_known * vout_value / (vin - vout_value), shown with "%.2f".
\* The quotient vout_value / (vin - vout_value) is taken in lowest terms, which
\* keeps the products within the model checker's 32-bit integers.
Resistance(R_known, vin, vout) ==
    Number(RoundHalfEven(100 * R_known * (vout \div GCD(vout, vin - vout)),
                         (vin - vout) \div GCD(vout, vin - vout)))

\* capacitance: vin / vout_value raises ZeroDivisionError for vout_value = 0,
\* as does the division by R_known = 0; both are caught and shown as ERR.
\* The digits of the value (pi, sqrt) are not modelled.
Capacitance(R_known, vin, vout) ==
    IF vout = 0 \/ R_known = 0 THEN Label("ERR") ELSE Label("capacitance")

\* inductance: ratio = vout_value / vin < 1 here, so the root is defined.
Inductance(R_known, vin, vout) == Label("inductance")

\* The else-branch of on_vout_rms_measured (vin > vout_value).
ManualValue(mode, R_known, vin, vout) ==
    CASE mode = "R" -> Resistance(R_known, vin, vout)
      [] mode = "C" -> Capacitance(R_known, vin, vout)
      [] mode = "L" -> Inductance(R_known, vin, vout)
      [] OTHER -> result_label

ManualResult_strict_less(mode, R_known, vin, vout) ==
    IF vin < vout THEN Label("ERR")
    ELSE IF vin = vout THEN Label("inf")
    ELSE ManualValue(mode, R_known, vin, vout)

\* What on_vout_rms_measured leaves in the result label.
ManualResult(mode, R_known, vin, vout) ==
    IF vin <= vout THEN Label("ERR") ELSE ManualValue(mode, R_known, vin, vout)

----------------------------------------------------------------------------
(* Completion slots of the manual R/C/L flow *)

VinTooLow_or_equal(vin_value) == vin_value <= VIN_MIN

\* if vin_value < 0.0001
VinTooLow(vin_value) == vin_value < VIN_MIN

on_vin_rms_measured(vin_value) ==
    /\ MainThread
    /\ Delivered("on_vin_rms_measured")
    /\ IF VinTooLow(vin_value)
       THEN /\ status_label' = "Error: Vin is too low. Restarting."
            /\ reset_measurement_state
       ELSE /\ measured_vin_rms' = Some(vin_value)
            /\ status_label' = "STEP 2: Connect probes across component (Vout)."
            /\ action_enabled' = TRUE
            /\ action_text' = "Continue"
            /\ measurement_state' = "WAITING_FOR_VOUT_RMS"
            /\ UNCHANGED <<measured_vin_phase, measured_vin_low, measured_vout_low,
                           measured_vin_high, measured_vout_high>>
    /\ UNCHANGED <<audioVars, app_alive, current_mode, result_label, genVars, sigVars, calVars>>

on_vout_rms_measured(vout_value) ==
    /\ MainThread
    /\ Delivered("on_vout_rms_measured")
    /\ IF measured_vin_rms = None \/ Val(measured_vin_rms) <= 0
       THEN /\ status_label' = "Error: Vin invalid. Restarting."
            /\ UNCHANGED result_label
       ELSE /\ result_label' = ManualResult(current_mode, known_resistor,
                                            Val(measured_vin_rms), vout_value)
            /\ status_label' = IF Val(measured_vin_rms) <= vout_value
                               THEN "Error: Vout>=Vin. Restarting."
                               ELSE "Measurement Complete!"
    /\ reset_measurement_state
    /\ UNCHANGED <<audioVars, app_alive, current_mode, genVars, sigVars, calVars>>

----------------------------------------------------------------------------
(* Completion slots of the frequency-sweep flow *)

on_vin_low_measured(vin_value) ==
    /\ MainThread
    /\ Delivered("on_vin_low_measured")
    /\ measured_vin_low' = Some(vin_value)
    /\ status_label' = "STEP 2: Connect probes across component @ f_low."
    /\ action_enabled' = TRUE
    /\ measurement_state' = "AUTO_WAITING_FOR_VOUT_LOW"
    /\ UNCHANGED <<measured_vin_rms, measured_vin_phase, measured_vout_low,
                   measured_vin_high, measured_vout_high, action_text>>
    /\ UNCHANGED <<audioVars, app_alive, current_mode, result_label, genVars, sigVars, calVars>>

on_vout_low_measured(vout_value) ==
    /\ MainThread
    /\ Delivered("on_vout_low_measured")
    /\ measured_vout_low' = Some(vout_value)
    /\ signal_frequency' = f_high
    /\ status_label' = "STEP 3: Connect probes across source (Vin) @ f_high."
    /\ action_enabled' = TRUE
    /\ measurement_state' = "AUTO_WAITING_FOR_VIN_HIGH"
    /\ UNCHANGED <<measured_vin_rms, measured_vin_phase, measured_vin_low,
                   measured_vin_high, measured_vout_high, action_text>>
    /\ UNCHANGED <<audioVars, app_alive, current_mode, result_label, genVars,
                   signal_amplitude, calVars>>

on_vin_high_measured(vin_value) ==
    /\ MainThread
    /\ Delivered("on_vin_high_measured")
    /\ measured_vin_high' = Some(vin_value)
    /\ status_label' = "STEP 4: Connect probes across component @ f_high."
    /\ action_enabled' = TRUE
    /\ measurement_state' = "AUTO_WAITING_FOR_VOUT_HIGH"
    /\ UNCHANGED <<measured_vin_rms, measured_vin_phase, measured_vin_low,
                   measured_vout_low, measured_vout_high, action_text>>
    /\ UNCHANGED <<audioVars, app_alive, current_mode, result_label, genVars, sigVars, calVars>>

NoImpedance_strict(vin, vout) ==
    \/ vin = None
    \/ vout = None
    \/ Val(vin) < Val(vout)
    \/ Val(vout) = 0

\* calculate_impedance_magnitude returns None: a reading is missing,
\* vin <= vout, or (vin / vout) raises ZeroDivisionError for vout = 0.
NoImpedance(vin, vout) ==
    \/ vin = None
    \/ vout = None
    \/ Val(vin) <= Val(vout)
    \/ Val(vout) = 0

\* impedance = R_known / sqrt((vin / vout)^2 - 1), kept as its sign and its
\* square num / den (den > 0): the root is never taken.
Impedance(R_known, vin, vout) ==
    [sign |-> IF R_known > 0 THEN 1 ELSE IF R_known = 0 THEN 0 ELSE -1,
     num |-> R_known * R_known * Val(vout) * Val(vout),
     den |-> Val(vin) * Val(vin) - Val(vout) * Val(vout)]

TrendType_falling_is_inductor(z_low, z_high) ==
    LET a == z_low.num * z_high.den
        b == z_high.num * z_low.den
    IN  IF Max(a, b) < 4 * Min(a, b) THEN "Resistor"
        ELSE IF b < a THEN "Inductor"
        ELSE "Capacitor"

\* The classification of analyze_impedance_trend for two positive impedances:
\* with a = z_low^2 and b = z_high^2 over a common denominator,
\* max / min < 2 is max(a, b) < 4 * min(a, b), and z_high < z_low is b < a.
TrendType(z_low, z_high) ==
    LET a == z_low.num * z_high.den
        b == z_high.num * z_low.den
    IN  IF Max(a, b) < 4 * Min(a, b) THEN "Resistor"
        ELSE IF b < a THEN "Capacitor"
        ELSE "Inductor"

analyze_impedance_trend_error_keeps_readings(vin_low, vout_low, vin_high, vout_high) ==
    IF \/ NoImpedance(vin_low, vout_low)
       \/ NoImpedance(vin_high, vout_high)
       \/ Impedance(known_resistor, vin_low, vout_low).sign <= 0
       \/ Impedance(known_resistor, vin_high, vout_high).sign <= 0
    THEN /\ result_label' = Label("ERR")
         /\ status_label' = "Measurement error. Check connections."
         /\ action_enabled' = TRUE
         /\ action_text' = "MEASURE"
         /\ measurement_state' = "IDLE"
         /\ measured_vout_high' = vout_high
         /\ UNCHANGED <<measured_vin_rms, measured_vin_phase, measured_vin_low,
                        measured_vout_low, measured_vin_high, signal_frequency>>
    ELSE /\ result_label' = Label(TrendType(
                                Impedance(known_resistor, vin_low, vout_low),
                                Impedance(known_resistor, vin_high, vout_high)))
         /\ status_label' = "Detection Complete!"
         /\ signal_frequency' = RESET_FREQUENCY
         /\ reset_measurement_state

\* analyze_impedance_trend with the four readings given.
analyze_impedance_trend(vin_low, vout_low, vin_high, vout_high) ==
    IF \/ NoImpedance(vin_low, vout_low)
       \/ NoImpedance(vin_high, vout_high)
       \/ Impedance(known_resistor, vin_low, vout_low).sign <= 0
       \/ Impedance(known_resistor, vin_high, vout_high).sign <= 0
    THEN /\ result_label' = Label("ERR")
         /\ status_label' = "Measurement error. Check connections."
         /\ reset_measurement_state
         /\ UNCHANGED signal_frequency
    ELSE /\ result_label' = Label(TrendType(
                                Impedance(known_resistor, vin_low, vout_low),
                                Impedance(known_resistor, vin_high, vout_high)))
         /\ status_label' = "Detection Complete!"
         /\ signal_frequency' = RESET_FREQUENCY
         /\ reset_measurement_state

\* Stores vout_high, disables the button and analyses at once: the reset at
\* the end of the analysis is what the handler leaves behind.
on_vout_high_measured(vout_value) ==
    /\ MainThread
    /\ Delivered("on_vout_high_measured")
    /\ analyze_impedance_trend(measured_vin_low, measured_vout_low,
                               measured_vin_high, Some(vout_value))
    /\ UNCHANGED <<audioVars, app_alive, current_mode, genVars, signal_amplitude, calVars>>

----------------------------------------------------------------------------
(* Completion slots of the phase-shift flow *)

\* while phase_diff > 180: phase_diff -= 360
RECURSIVE WrapDown(_)
WrapDown(d) == IF d > 180 THEN WrapDown(d - 360) ELSE d

\* while phase_diff < -180: phase_diff += 360
RECURSIVE WrapUp(_)
WrapUp(d) == IF d < -180 THEN WrapUp(d + 360) ELSE d

NormalizePhase(d) == WrapUp(WrapDown(d))

PhaseType(phase_diff) ==
    IF Abs(phase_diff) < 15 THEN "Resistor"
    ELSE IF phase_diff < -15 THEN "Capacitor"
    ELSE "Inductor"

on_vin_phase_measured(phase_value) ==
    /\ MainThread
    /\ Delivered("on_vin_phase_measured")
    /\ measured_vin_phase' = Some(phase_value)
    /\ status_label' = "STEP 2: Connect probes across component (Vout)."
    /\ action_enabled' = TRUE
    /\ action_text' = "Continue"
    /\ measurement_state' = "WAITING_FOR_VOUT_PHASE"
    /\ UNCHANGED <<measured_vin_rms, measured_vin_low, measured_vout_low,
                   measured_vin_high, measured_vout_high>>
    /\ UNCHANGED <<audioVars, app_alive, current_mode, result_label, genVars, sigVars, calVars>>

on_vout_phase_measured(vout_phase) ==
    /\ MainThread
    /\ Delivered("on_vout_phase_measured")
    /\ IF measured_vin_phase = None
       THEN /\ status_label' = "Error: Vin phase not measured. Restarting."
            /\ UNCHANGED result_label
       ELSE /\ result_label' = Label(PhaseType(NormalizePhase(
                                   vout_phase - Val(measured_vin_phase))))
            /\ status_label' = "Detection Complete! (Phase Shift)"
    /\ reset_measurement_state
    /\ UNCHANGED <<audioVars, app_alive, current_mode, genVars, sigVars, calVars>>

----------------------------------------------------------------------------
(* The tasks' threads: RMSWorker.run / PhaseWorker.run *)

\* get_stable_rms(2): a loop of blocking stream.read calls, one chunk each.
\* A task has read nothing yet ("started"), is between two reads ("reading"),
\* or has read its last chunk and emitted finished ("finished").
RMSWorker_run ==
    /\ app_alive
    /\ \E w \in BagToSet(workers) :
          /\ w.kind = "rms"
          /\ \/ w.st = "started" /\ Advance(w, "reading")
             \/ w.st = "reading" /\ Advance(w, "finished")
    /\ UNCHANGED <<audioVars, app_alive, current_mode, sessionVars, status_label,
                   result_label, genVars, sigVars, calVars>>

\* get_phase_of_signal(0.5, f): reads chunks until 0.5 s of samples are held.
PhaseWorker_run ==
    /\ app_alive
    /\ \E w \in BagToSet(workers) :
          /\ w.kind = "phase"
          /\ \/ w.st = "started" /\ Advance(w, "reading")
             \/ w.st = "reading" /\ Advance(w, "finished")
    /\ UNCHANGED <<audioVars, app_alive, current_mode, sessionVars, status_label,
                   result_label, genVars, sigVars, calVars>>

\* What RMSWorker_run takes in three steps, followed chunk by chunk: the
\* call get_stable_rms(duration_seconds), the duration counted in tenths of
\* a second.
Durations == {-10, 0, 1, 5, 10, 20}

\* int(x) of Python for x = p / q, q > 0: the fraction is cut off towards 0.
TruncToInt(p, q) == IF p >= 0 THEN p \div q ELSE -((-p) \div q)

num_chunks_to_read_rounded_up(duration_seconds) ==
    -((-(RATE * duration_seconds)) \div (CHUNK * 10))

\* num_chunks_to_read = int((self.RATE / self.CHUNK) * duration_seconds)
num_chunks_to_read(duration_seconds) ==
    TruncToInt(RATE * duration_seconds, CHUNK * 10)

\* The call begins: the number of chunks is fixed, readings = [].
get_stable_rms(duration_seconds) ==
    /\ app_alive
    /\ IF stable_rms = None THEN TRUE ELSE Val(stable_rms).pc = "returned"
    /\ stable_rms' = Some([duration_seconds |-> duration_seconds,
                           num_chunks_to_read |->
                               num_chunks_to_read(duration_seconds),
                           readings |-> 0,
                           pc |-> "loop"])
    /\ UNCHANGED <<app_alive, ui_pc, current_mode, sessionVars, status_label,
                   result_label, generating_signal, signal_thread,
                   orphan_threads, sigVars, calVars, workers, output_chunk>>

\* One pass of "for _ in range(num_chunks_to_read)": a chunk is read and its
\* RMS voltage appended to readings (held as their number); after the last
\* pass, or at once for a range that is empty, the call returns.
get_stable_rms_loop ==
    /\ app_alive
    /\ stable_rms # None
    /\ Val(stable_rms).pc = "loop"
    /\ stable_rms' =
          IF Val(stable_rms).readings < Val(stable_rms).num_chunks_to_read
          THEN Some([Val(stable_rms) EXCEPT !.readings = @ + 1])
          ELSE Some([Val(stable_rms) EXCEPT !.pc = "returned"])
    /\ UNCHANGED <<app_alive, ui_pc, current_mode, sessionVars, status_label,
                   result_label, generating_signal, signal_thread,
                   orphan_threads, sigVars, calVars, workers, output_chunk>>

\* A task is between two of its reads of the input stream.
MidRead == \E w \in BagToSet(workers) : w.st = "reading"

----------------------------------------------------------------------------
(* The live readout: info_update_timer -> update_info -> get_latest_data *)

\* Fires every 100 ms whenever the main thread is free: one blocking
\* stream.read of a chunk, whose RMS voltage and frequency go to the info
\* labels and the plot.  Nothing the orchestrator keeps is written.
update_info ==
    /\ MainThread
    /\ UNCHANGED vars

----------------------------------------------------------------------------
(* The signal generator *)

Alive(pc) == pc \in {"loop", "write"}

\* Generator threads that have not returned from _generate_signal_target.
AliveGenerators ==
    (IF Alive(signal_thread) THEN 1 ELSE 0)
        + orphan_threads.loop + orphan_threads.write

\* if not generating_signal: set the flag and start a new daemon thread.
\* A previous thread that is still alive is no longer referenced.
start_signal_generation ==
    IF ~generating_signal
    THEN /\ generating_signal' = TRUE
         /\ signal_thread' = "loop"
         /\ orphan_threads' =
               IF Alive(signal_thread)
               THEN [orphan_threads EXCEPT ![signal_thread] = @ + 1]
               ELSE orphan_threads
    ELSE UNCHANGED <<generating_signal, signal_thread, orphan_threads>>

\* generating_signal = False, then signal_thread.join(timeout=0.1) begins.
stop_signal_generation ==
    /\ generating_signal' = FALSE
    /\ ui_pc' = IF signal_thread = "None" THEN "ready" ELSE "joining"
    /\ UNCHANGED <<signal_thread, orphan_threads>>

toggle_signal_generator ==
    /\ MainThread
    /\ IF generating_signal
       THEN stop_signal_generation
       ELSE /\ orphan_threads.loop + orphan_threads.write
                  + (IF Alive(signal_thread) THEN 1 ELSE 0) <= MaxOrphans
            /\ start_signal_generation
            /\ UNCHANGED ui_pc
    /\ UNCHANGED <<audioVars, app_alive, current_mode, sessionVars, status_label,
                   result_label, sigVars, calVars, workers>>

\* join(timeout=0.1) returns: the thread has ended, or 0.1 s have passed and
\* the thread is still alive.  The return value of join is not looked at.
join_returns ==
    /\ app_alive
    /\ ui_pc = "joining"
    /\ \/ signal_thread = "dead"
       \/ Alive(signal_thread)
    /\ ui_pc' = "ready"
    /\ UNCHANGED <<audioVars, app_alive, current_mode, sessionVars, status_label,
                   result_label, generating_signal, signal_thread,
                   orphan_threads, sigVars, calVars, workers>>

\* One step of a generator thread at pc: "loop" tests the flag and goes on to
\* write or returns; "write" writes one chunk, sleeps and loops.
GeneratorStep(pc) ==
    IF pc = "loop"
    THEN IF generating_signal THEN "write" ELSE "dead"
    ELSE "loop"

\* The phase of sample n of a chunk, in units of 1 / RATE of a cycle:
\* sin(2 * pi * n * frequency / RATE).
SamplePhase(n, frequency) == (n * frequency) % RATE

\* The chunk np.arange(CHUNK) gives at a frequency: the phase of its first
\* sample and the phase its sine reaches for the sample after its last.
Samples(frequency) ==
    [first |-> SamplePhase(0, frequency), next |-> SamplePhase(CHUNK, frequency)]

\* The thread at pc hands its chunk to output_stream.write.
WriteChunk(pc) ==
    IF pc = "write"
    THEN output_chunk' = Some(Samples(signal_frequency))
    ELSE UNCHANGED output_chunk

\* _generate_signal_target in the thread signal_thread refers to.
_generate_signal_target ==
    /\ app_alive
    /\ Alive(signal_thread)
    /\ signal_thread' = GeneratorStep(signal_thread)
    /\ WriteChunk(signal_thread)
    /\ UNCHANGED <<stable_rms, app_alive, ui_pc, current_mode, sessionVars, status_label,
                   result_label, generating_signal, orphan_threads, sigVars,
                   calVars, workers>>

\* _generate_signal_target in a thread that is no longer referenced.
generate_signal_orphan ==
    /\ app_alive
    /\ \E pc \in {"loop", "write"} :
          /\ orphan_threads[pc] > 0
          /\ orphan_threads' =
                LET left == [orphan_threads EXCEPT ![pc] = @ - 1]
                    to == GeneratorStep(pc)
                IN  IF to = "dead" THEN left ELSE [left EXCEPT ![to] = @ + 1]
          /\ WriteChunk(pc)
    /\ UNCHANGED <<stable_rms, app_alive, ui_pc, current_mode, sessionVars, status_label,
                   result_label, generating_signal, signal_thread, sigVars,
                   calVars, workers>>

----------------------------------------------------------------------------
(* Generator settings and the known resistor *)

adjust_sig_gen_unclamped(param, value) ==
    /\ MainThread
    /\ IF param = "freq"
       THEN /\ signal_frequency' = signal_frequency + value
            /\ UNCHANGED signal_amplitude
       ELSE IF param = "amp"
       THEN /\ signal_amplitude' = signal_amplitude + value
            /\ UNCHANGED signal_frequency
       ELSE UNCHANGED sigVars
    /\ UNCHANGED <<audioVars, app_alive, current_mode, sessionVars, status_label,
                   result_label, genVars, calVars, workers>>

\* The Freq +/- and Amp +/- buttons: the setting moves by value and is
\* clamped to its range.
adjust_sig_gen(param, value) ==
    /\ MainThread
    /\ IF param = "freq"
       THEN /\ signal_frequency' =
                  Max(FREQ_MIN, Min(FREQ_MAX, signal_frequency + value))
            /\ UNCHANGED signal_amplitude
       ELSE IF param = "amp"
       THEN /\ signal_amplitude' =
                  Max(AMP_MIN, Min(AMP_MAX, signal_amplitude + value))
            /\ UNCHANGED signal_frequency
       ELSE UNCHANGED sigVars
    /\ UNCHANGED <<audioVars, app_alive, current_mode, sessionVars, status_label,
                   result_label, genVars, calVars, workers>>

\* The texts a user types into the known-resistor field and into the
\* calibration field, under a locale whose decimal separator is the comma.
TypedRTexts == {"1000", "470", "470,0", "0", "-5"}

TypedCalibTexts == {"2", "15e-5", "0,5", "0e0", "-2"}

\* QLocale.toDouble(text), as the validators read a text: the value (of a
\* resistor text in ohm, of a calibration text in units of 0.00001), or no
\* number.  The point of the texts the program writes is no decimal separator
\* of this locale.
LocaleToDouble(text) ==
    CASE text = "1000" -> Some(1000)
      [] text = "470" -> Some(470)
      [] text = "470,0" -> Some(470)
      [] text = "0" -> Some(0)
      [] text = "-5" -> Some(-5)
      [] text = "2" -> Some(200000)
      [] text = "15e-5" -> Some(15)
      [] text = "0,5" -> Some(50000)
      [] text = "0e0" -> Some(0)
      [] text = "-2" -> Some(-200000)
      [] OTHER -> None

\* QDoubleValidator(bottom, top, decimals): Acceptable for a number of the
\* locale within [bottom, top]; none of the texts has more than the allowed
\* decimals.  The scientific notation is accepted by default.
QDoubleValidator(bottom, top, text) ==
    /\ LocaleToDouble(text) # None
    /\ bottom <= Val(LocaleToDouble(text))
    /\ Val(LocaleToDouble(text)) <= top

KnownRValidator_off(text) == TRUE

\* known_r_input.setValidator(QDoubleValidator(1.0, 1000000.0, 2))
KnownRValidator(text) == QDoubleValidator(KNOWN_R_MIN, KNOWN_R_MAX, text)

\* calib_input.setValidator(QDoubleValidator(0.0001, 10.0, 4))
CalibValidator(text) == QDoubleValidator(CALIB_MIN, CALIB_MAX, text)

\* float(text): the value, or ValueError.  Python knows the point only.
ParseFloat(text) ==
    CASE text = "1000.0" -> Some(1000)
      [] text = "470.0" -> Some(470)
      [] text = "1000" -> Some(1000)
      [] text = "470" -> Some(470)
      [] text = "0" -> Some(0)
      [] text = "-5" -> Some(-5)
      [] text = "2" -> Some(200000)
      [] text = "15e-5" -> Some(15)
      [] text = "0e0" -> Some(0)
      [] text = "-2" -> Some(-200000)
      [] text = "0.1000" -> Some(10000)
      [] text = "2.0000" -> Some(200000)
      [] text = "0.0001" -> Some(10)
      [] OTHER -> None

\* f"{known_resistor}": a float prints with its fraction.
FormatFloat(val) ==
    CASE val = 1000 -> "1000.0"
      [] val = 470 -> "470.0"
      [] val = 0 -> "0.0"
      [] val = -5 -> "-5.0"

\* f"{calibration_factor:.4f}": four decimals, 0.00015 prints as 0.0001.
FormatCalibration(val) ==
    CASE val = 10000 -> "0.1000"
      [] val = 200000 -> "2.0000"
      [] val = 15 -> "0.0001"
      [] val = 0 -> "0.0000"
      [] val = -200000 -> "-2.0000"

\* The texts editingFinished is emitted with: a line edit with a validator
\* emits it for Acceptable input only.
KnownRTexts == {text \in TypedRTexts : KnownRValidator(text)}

CalibTexts == {text \in TypedCalibTexts : CalibValidator(text)}

update_known_resistor_keeps_text(text) ==
    /\ MainThread
    /\ IF ParseFloat(text) # None
       THEN known_resistor' = Val(ParseFloat(text))
       ELSE UNCHANGED known_resistor
    /\ known_r_input' = text
    /\ UNCHANGED <<audioVars, app_alive, current_mode, sessionVars, status_label,
                   result_label, genVars, sigVars, plotVars, workers>>

_update_known_resistor(text) ==
    /\ MainThread
    /\ IF ParseFloat(text) # None
       THEN /\ known_resistor' = Val(ParseFloat(text))
            /\ known_r_input' = text
       ELSE /\ known_r_input' = FormatFloat(known_resistor)
            /\ UNCHANGED known_resistor
    /\ UNCHANGED <<audioVars, app_alive, current_mode, sessionVars, status_label,
                   result_label, genVars, sigVars, plotVars, workers>>

----------------------------------------------------------------------------
(* The plot window and its calibration field *)

\* A new PlotWindow is built whenever none is visible; its calibration field
\* starts with the factor to four decimals.  A visible one is only raised.
toggle_plot_window ==
    /\ MainThread
    /\ IF plot_window # "visible"
       THEN /\ plot_window' = "visible"
            /\ calib_input' = FormatCalibration(calibration_factor)
       ELSE UNCHANGED <<plot_window, calib_input>>
    /\ UNCHANGED <<audioVars, app_alive, current_mode, sessionVars, status_label,
                   result_label, genVars, sigVars, known_resistor,
                   known_r_input, calibration_factor, workers>>

\* The user closes the dialog: Qt hides it.
PlotWindow_close ==
    /\ MainThread
    /\ plot_window = "visible"
    /\ plot_window' = "hidden"
    /\ UNCHANGED <<audioVars, app_alive, current_mode, sessionVars, status_label,
                   result_label, genVars, sigVars, known_resistor,
                   known_r_input, calibration_factor, calib_input, workers>>

_update_calibration(text) ==
    /\ MainThread
    /\ plot_window = "visible"
    /\ IF ParseFloat(text) # None
       THEN /\ calibration_factor' = Val(ParseFloat(text))
            /\ calib_input' = text
       ELSE /\ calib_input' = FormatCalibration(calibration_factor)
            /\ UNCHANGED calibration_factor
    /\ UNCHANGED <<audioVars, app_alive, current_mode, sessionVars, status_label,
                   result_label, genVars, sigVars, known_resistor,
                   known_r_input, plot_window, workers>>

----------------------------------------------------------------------------
(* The program *)

\* self.plot_window = None, the calibration factor as the backend sets it.
NoPlotWindow ==
    /\ calibration_factor = INIT_CALIBRATION
    /\ calib_input = ""
    /\ plot_window = "None"

\* LCRMeterWindow.__init__ with OhmMeterBackend.__init__: setup_ui ends with
\* set_measurement_mode('R'), then the poll timer is started.
Init ==
    /\ app_alive = TRUE
    /\ ui_pc = "ready"
    /\ current_mode = "R"
    /\ measurement_state = "IDLE"
    /\ measured_vin_rms = None
    /\ measured_vin_phase = None
    /\ measured_vin_low = None
    /\ measured_vout_low = None
    /\ measured_vin_high = None
    /\ measured_vout_high = None
    /\ action_enabled = TRUE
    /\ action_text = "MEASURE"
    /\ status_label = "Ready"
    /\ result_label = Label("---")
    /\ known_resistor = INIT_KNOWN_RESISTOR
    /\ known_r_input = "1000.0"
    /\ NoPlotWindow
    /\ generating_signal = FALSE
    /\ signal_frequency = INIT_FREQUENCY
    /\ signal_amplitude = INIT_AMPLITUDE
    /\ signal_thread = "None"
    /\ orphan_threads = [loop |-> 0, write |-> 0]
    /\ workers = EmptyBag
    /\ stable_rms = None
    /\ output_chunk = None

\* The generator thread as stop_signal_generation meets it when the output
\* device is responsive: it notices the cleared flag while join() waits.
GeneratorNoticesStop ==
    /\ ui_pc = "joining"
    /\ _generate_signal_target

JoinEnds ==
    /\ signal_thread = "dead"
    /\ join_returns

\* A click on the action button that leaves at most cap tasks in flight.
Click(cap) ==
    /\ measurement_state = "IDLE" \/ InFlight < cap
    /\ on_action_button_clicked

\* The orchestrator, with a responsive output device, the generator settings
\* and the known resistor left alone, and at most MaxInFlight tasks in flight.
Next ==
    \/ Click(MaxInFlight)
    \/ \E mode \in Modes : set_measurement_mode(mode)
    \/ toggle_signal_generator
    \/ GeneratorNoticesStop
    \/ JoinEnds
    \/ update_info
    \/ RMSWorker_run
    \/ PhaseWorker_run
    \/ \E v \in RmsValues : on_vin_rms_measured(v)
    \/ \E v \in RmsValues : on_vout_rms_measured(v)
    \/ \E v \in RmsValues : on_vin_low_measured(v)
    \/ \E v \in RmsValues : on_vout_low_measured(v)
    \/ \E v \in RmsValues : on_vin_high_measured(v)
    \/ \E v \in RmsValues : on_vout_high_measured(v)
    \/ \E v \in PhaseValues : on_vin_phase_measured(v)
    \/ \E v \in PhaseValues : on_vout_phase_measured(v)

Spec == Init /\ [][Next]_vars

\* The state after the generator button was pressed once.
GeneratorOn ==
    /\ generating_signal = TRUE
    /\ signal_thread = "loop"
    /\ orphan_threads = [loop |-> 0, write |-> 0]
    /\ ui_pc = "ready"

Idle ==
    /\ app_alive = TRUE
    /\ measurement_state = "IDLE"
    /\ measured_vin_rms = None
    /\ measured_vin_phase = None
    /\ measured_vin_low = None
    /\ measured_vout_low = None
    /\ measured_vin_high = None
    /\ measured_vout_high = None
    /\ action_enabled = TRUE
    /\ action_text = "MEASURE"
    /\ status_label = "Ready"
    /\ result_label = Label("---")
    /\ signal_frequency = INIT_FREQUENCY
    /\ signal_amplitude = INIT_AMPLITUDE
    /\ workers = EmptyBag
    /\ stable_rms = None
    /\ output_chunk = None

\* Sessions and their tasks with the generator left on: up to MaxTasks tasks
\* in flight.
InitTasks ==
    /\ Idle
    /\ GeneratorOn
    /\ current_mode = "R"
    /\ known_resistor = INIT_KNOWN_RESISTOR
    /\ known_r_input = "1000.0"
    /\ NoPlotWindow

NextTasks ==
    \/ Click(MaxTasks)
    \/ \E mode \in Modes : set_measurement_mode(mode)
    \/ update_info
    \/ RMSWorker_run
    \/ PhaseWorker_run
    \/ \E v \in RmsValues : on_vin_rms_measured(v)
    \/ \E v \in RmsValues : on_vout_rms_measured(v)
    \/ \E v \in RmsValues : on_vin_low_measured(v)
    \/ \E v \in RmsValues : on_vout_low_measured(v)
    \/ \E v \in RmsValues : on_vin_high_measured(v)
    \/ \E v \in RmsValues : on_vout_high_measured(v)
    \/ \E v \in PhaseValues : on_vin_phase_measured(v)
    \/ \E v \in PhaseValues : on_vout_phase_measured(v)

SpecTasks == InitTasks /\ [][NextTasks]_vars

\* The manual R/C/L flow over the readings RmsReadings, the generator left
\* on, a mode selected and a known resistor entered, with the edits of the
\* known resistor and of the calibration factor.
InitManual ==
    /\ Idle
    /\ GeneratorOn
    /\ current_mode \in {"R", "C", "L"}
    /\ known_resistor \in {Val(ParseFloat(text)) : text \in {"1000.0", "470.0"}}
    /\ known_r_input = FormatFloat(known_resistor)
    /\ NoPlotWindow

NextManual ==
    \/ Click(MaxInFlight)
    \/ \E text \in KnownRTexts : _update_known_resistor(text)
    \/ toggle_plot_window
    \/ PlotWindow_close
    \/ \E text \in CalibTexts : _update_calibration(text)
    \/ RMSWorker_run
    \/ \E v \in RmsReadings : on_vin_rms_measured(v)
    \/ \E v \in RmsReadings : on_vout_rms_measured(v)

SpecManual == InitManual /\ [][NextManual]_vars

\* The generator and its amplitude: the thread runs freely, join() may time
\* out, no session is started.  The frequency is left to SpecSignal.
NextGen ==
    \/ toggle_signal_generator
    \/ join_returns
    \/ _generate_signal_target
    \/ generate_signal_orphan
    \/ \E value \in {AMP_STEP, -AMP_STEP} : adjust_sig_gen("amp", value)

SpecGen == Init /\ [][NextGen]_vars

\* Auto detection with the generator settings free: the frequency and
\* amplitude buttons stay usable during a session.
InitSweep ==
    /\ Idle
    /\ GeneratorOn
    /\ current_mode = "AUTO"
    /\ known_resistor = INIT_KNOWN_RESISTOR
    /\ known_r_input = "1000.0"
    /\ NoPlotWindow

NextSweep ==
    \/ Click(MaxInFlight)
    \/ \E value \in {FREQ_STEP, -FREQ_STEP} : adjust_sig_gen("freq", value)
    \/ \E value \in {AMP_STEP, -AMP_STEP} : adjust_sig_gen("amp", value)
    \/ RMSWorker_run
    \/ PhaseWorker_run
    \/ \E v \in RmsValues : on_vin_low_measured(v)
    \/ \E v \in RmsValues : on_vout_low_measured(v)
    \/ \E v \in RmsValues : on_vin_high_measured(v)
    \/ \E v \in RmsValues : on_vout_high_measured(v)
    \/ \E v \in PhaseValues : on_vin_phase_measured(v)
    \/ \E v \in PhaseValues : on_vout_phase_measured(v)

SpecSweep == InitSweep /\ [][NextSweep]_vars

\* The generator's output with the generator left on and the frequency
\* buttons in use: one thread, chunk after chunk.
NextSignal ==
    \/ _generate_signal_target
    \/ \E value \in {FREQ_STEP, -FREQ_STEP} : adjust_sig_gen("freq", value)

SpecSignal == InitTasks /\ [][NextSignal]_vars

\* get_stable_rms over the durations Durations.
NextRms ==
    \/ \E duration_seconds \in Durations : get_stable_rms(duration_seconds)
    \/ get_stable_rms_loop

SpecRms == Init /\ [][NextRms]_vars

----------------------------------------------------------------------------
(* Properties *)

AllNone == <<None, None, None, None, None, None>>

\* C1: at most one measurement task (RMSWorker or PhaseWorker) is in flight
\* at any time: no task is spawned before the previous one has delivered its
\* completion callback.
C1_AtMostOneTaskInFlight == InFlight <= 1

\* C2: a click on the action button in IDLE with the generator off is
\* rejected: the state stays IDLE, the error message is shown, no captured
\* reading changes and no task is launched.
C2_RejectedWithoutGenerator ==
    [][(on_action_button_clicked /\ measurement_state = "IDLE"
            /\ ~generating_signal)
        => /\ measurement_state' = "IDLE"
           /\ status_label' = "Error: Turn on Signal Generator first."
           /\ readings' = readings
           /\ workers' = workers]_vars

C2_Rejected ==
    /\ status_label = "Error: Turn on Signal Generator first."
    /\ measurement_state = "IDLE"
    /\ ~generating_signal
    /\ workers = EmptyBag

\* C3: while a measurement task is in flight the action button is disabled.
C3_DisabledWhileInFlight == InFlight > 0 => ~action_enabled

\* C4: the live-readout poll does not read from the input stream while a
\* measurement task is between two of its reads: whenever a task is reading,
\* update_info cannot run.
C4_PollExcludedWhileReading == MidRead => ~ENABLED update_info

\* C5: at most one generator thread is alive (looping and writing chunks to
\* the output stream) at any time.
C5_AtMostOneGenerator == AliveGenerators <= 1

\* C6: once stop_signal_generation has returned (the flag is cleared and the
\* main thread is out of join), no generator thread is alive.
C6_HaltedAfterStop ==
    (ui_pc = "ready" /\ ~generating_signal) => AliveGenerators = 0

\* A completion slot ends the session: the weak-source abort of the manual
\* flow, the manual result, the sweep analysis, the phase result.
TerminalOutcome ==
    \/ \E v \in RmsValues : VIN_MIN > v /\ on_vin_rms_measured(v)
    \/ \E v \in RmsValues : on_vout_rms_measured(v)
    \/ \E v \in RmsValues : on_vout_high_measured(v)
    \/ \E v \in PhaseValues : on_vout_phase_measured(v)

\* C7: every terminal outcome of a session, result or error, leaves the
\* state IDLE, the six captured readings None and the action button enabled.
C7_TerminalOutcomeResets ==
    [][TerminalOutcome
        => /\ measurement_state' = "IDLE"
           /\ readings' = AllNone
           /\ action_enabled']_vars

C7_SweepOutcome ==
    /\ status_label \in {"Detection Complete!", "Measurement error. Check connections."}
    /\ measurement_state = "IDLE"
    /\ readings = AllNone
    /\ action_enabled

\* C8: a Vin RMS completion below 0.0001 V (VIN_MIN) aborts the session to
\* IDLE with an error and stores nothing; a value of 0.0001 V or more is stored
\* as vin_rms and the state becomes WAITING_FOR_VOUT_RMS.
C8_VinThreshold ==
    [][\A v \in RmsValues :
          on_vin_rms_measured(v)
          => IF v < VIN_MIN
             THEN /\ measurement_state' = "IDLE"
                  /\ measured_vin_rms' = None
                  /\ status_label' = "Error: Vin is too low. Restarting."
             ELSE /\ measured_vin_rms' = Some(v)
                  /\ measurement_state' = "WAITING_FOR_VOUT_RMS"]_vars

C8_StoredAtThreshold ==
    /\ measurement_state = "WAITING_FOR_VOUT_RMS"
    /\ measured_vin_rms = Some(VIN_MIN)
    /\ workers = EmptyBag

\* C9: a Vout completion with a stored vin <= vout shows ERR, no number, in
\* every mode, and the session returns to IDLE.
C9_VoutNotBelowVinIsError ==
    [][\A v \in RmsValues :
          (on_vout_rms_measured(v) /\ measured_vin_rms # None
                /\ Val(measured_vin_rms) <= v)
          => /\ result_label' = Label("ERR")
             /\ measurement_state' = "IDLE"]_vars

C9_ErrorShown ==
    /\ result_label = Label("ERR")
    /\ status_label = "Error: Vout>=Vin. Restarting."
    /\ measurement_state = "IDLE"
    /\ current_mode = "C"

\* c hundredths of an ohm is R_known * vout / (vin - vout) to the nearest
\* hundredth: |c * (vin - vout) - 100 * R_known * vout| <= (vin - vout) / 2,
\* with vout / (vin - vout) in lowest terms.
ShowsResistance(c, R_known, vin, vout) ==
    LET g == GCD(vout, vin - vout)
        p == vout \div g
        q == (vin - vout) \div g
    IN  2 * Abs(c * q - 100 * R_known * p) <= q

\* C10: in mode R, for a stored vin and a delivered vout with vin > vout >= 0,
\* the number shown is R_known * vout / (vin - vout) (to the two decimals of
\* the label), R_known being the known resistor when the completion arrives;
\* vin = 5 V, vout = 2.5 V, R_known = 1000 show 1000.00.
C10_ResistanceFormula ==
    [][\A v \in RmsReadings :
          (on_vout_rms_measured(v) /\ current_mode = "R"
                /\ measured_vin_rms # None /\ Val(measured_vin_rms) > v)
          => /\ result_label'.kind = "number"
             /\ ShowsResistance(result_label'.val, known_resistor,
                                Val(measured_vin_rms), v)
             /\ (Val(measured_vin_rms) = 100000 /\ v = 50000
                    /\ known_resistor = 1000) => result_label'.val = 100000]_vars

C10_HalfOfSource ==
    /\ result_label = Number(100000)
    /\ known_resistor = 1000
    /\ current_mode = "R"
    /\ measurement_state = "IDLE"

\* C11: for the normalized difference diff = vout_phase - vin_phase the
\* phase-shift method shows Resistor exactly when |diff| < 15, Capacitor
\* exactly when diff < -15, and Inductor only when diff is positive: no
\* lagging (negative) diff is shown as Inductor.
C11_PhaseClassification ==
    [][\A v \in PhaseValues :
          (on_vout_phase_measured(v) /\ measured_vin_phase # None)
          => LET diff == NormalizePhase(v - Val(measured_vin_phase))
             IN  /\ (result_label' = Label("Resistor")) <=> (Abs(diff) < 15)
                 /\ (result_label' = Label("Capacitor")) <=> (diff < -15)
                 /\ (result_label' = Label("Inductor")) => (diff > 0)]_vars

\* |x| < k * |y| for two positive impedances held as squares num / den.
ZBelow(x, k, y) == x.num * y.den < k * k * y.num * x.den

\* C12: for valid positive impedances Z_low and Z_high the sweep analysis
\* shows Resistor when max(Z_low, Z_high) / min(Z_low, Z_high) < 2 (each below
\* twice the other), otherwise Capacitor when Z_high < Z_low, otherwise
\* Inductor; equal impedances show Resistor.
C12_TrendClassification ==
    [][\A v \in RmsValues :
          (/\ on_vout_high_measured(v)
           /\ ~NoImpedance(measured_vin_low, measured_vout_low)
           /\ ~NoImpedance(measured_vin_high, Some(v))
           /\ known_resistor > 0)
          => LET z_low == Impedance(known_resistor, measured_vin_low,
                                    measured_vout_low)
                 z_high == Impedance(known_resistor, measured_vin_high, Some(v))
             IN  /\ result_label' =
                       Label(IF ZBelow(z_low, 2, z_high) /\ ZBelow(z_high, 2, z_low)
                             THEN "Resistor"
                             ELSE IF ZBelow(z_high, 1, z_low) THEN "Capacitor"
                             ELSE "Inductor")
                 /\ (measured_vin_low = measured_vin_high
                        /\ measured_vout_low = Some(v))
                    => result_label' = Label("Resistor")]_vars

C12_FallingImpedance ==
    /\ result_label = Label("Capacitor")
    /\ status_label = "Detection Complete!"
    /\ measurement_state = "IDLE"

\* C16: whenever the final analysis of a frequency sweep ends, with a
\* component label or with a failed result, the generator frequency is the
\* default 1000 Hz afterwards.
C16_FrequencyResetOnCompletion ==
    [][\A v \in RmsValues :
          on_vout_high_measured(v) => signal_frequency' = RESET_FREQUENCY]_vars

\* The forward edges of the three flows.
FlowEdges ==
    {<<"IDLE", "WAITING_FOR_VIN_RMS">>,
     <<"WAITING_FOR_VIN_RMS", "WAITING_FOR_VOUT_RMS">>,
     <<"IDLE", "WAITING_FOR_VIN_PHASE">>,
     <<"WAITING_FOR_VIN_PHASE", "WAITING_FOR_VOUT_PHASE">>,
     <<"IDLE", "AUTO_WAITING_FOR_VIN_LOW">>,
     <<"AUTO_WAITING_FOR_VIN_LOW", "AUTO_WAITING_FOR_VOUT_LOW">>,
     <<"AUTO_WAITING_FOR_VOUT_LOW", "AUTO_WAITING_FOR_VIN_HIGH">>,
     <<"AUTO_WAITING_FOR_VIN_HIGH", "AUTO_WAITING_FOR_VOUT_HIGH">>}

\* C17: every change of the measurement state follows a forward edge of one
\* flow or returns to IDLE: no step is skipped, and from IDLE only the first
\* step of a flow is entered.
C17_ForwardEdgesOnly ==
    [][measurement_state' # measurement_state
        => \/ measurement_state' = "IDLE"
           \/ <<measurement_state, measurement_state'>> \in FlowEdges]_vars

\* The completion callback of task w runs: its finished(value) leaves the bag.
CallbackOf(w) ==
    /\ w.st = "finished"
    /\ workers' = workers (-) SetToBag({w})

\* C18: a completion callback runs only for a task of the current session:
\* the session is in the step that launched the task and the action button is
\* still disabled for it.  A callback of a task launched before the latest
\* reset finds the session reset (or re-started) and must not act.
C18_NoStaleCallback ==
    [][\A w \in BagToSet(workers) :
          CallbackOf(w)
          => \E s \in States \ {"IDLE"} :
                /\ SlotOf(s) = w.slot
                /\ measurement_state = s
                /\ ~action_enabled]_vars

\* C19: the measurement state is consistent with the selected mode: the
\* manual RMS steps only in modes R, C, L; the phase and sweep steps only in
\* mode AUTO.
C19_StateMatchesMode ==
    /\ measurement_state \in {"WAITING_FOR_VIN_RMS", "WAITING_FOR_VOUT_RMS"}
          => current_mode \in {"R", "C", "L"}
    /\ measurement_state \in (States \ {"IDLE", "WAITING_FOR_VIN_RMS",
                                        "WAITING_FOR_VOUT_RMS"})
          => current_mode = "AUTO"

C15_PositiveCalibrationAndResistor ==
    /\ calibration_factor > 0
    /\ known_resistor > 0

C15_EditsAccepted ==
    /\ known_resistor = 470
    /\ known_r_input = "470"
    /\ calibration_factor = 15
    /\ calib_input = "15e-5"

\* C13: the generator frequency is within 20..20000 Hz and the amplitude
\* within 0.1..1.0 in every reachable state: adjustments clamp, and the writes
\* of the sweep (f_low, f_high, the reset to 1000) are inside the range.
C13_SettingsWithinBounds ==
    /\ FREQ_MIN <= signal_frequency
    /\ signal_frequency <= FREQ_MAX
    /\ AMP_MIN <= signal_amplitude
    /\ signal_amplitude <= AMP_MAX

C13_ClampedAtMinimum ==
    /\ signal_frequency = FREQ_MIN
    /\ signal_amplitude = AMP_MIN
    /\ measurement_state = "AUTO_WAITING_FOR_VIN_HIGH"

\* C20: in the frequency sweep every RMS task of the f_low steps runs while
\* the generator frequency is f_low, and every RMS task of the f_high steps
\* while it is f_high, whatever the user does during the session.
C20_SweepFrequencyHeld ==
    \A w \in BagToSet(workers) :
        (w.kind = "rms" /\ w.st # "finished")
        => /\ w.slot \in {"on_vin_low_measured", "on_vout_low_measured"}
                 => signal_frequency = f_low
           /\ w.slot \in {"on_vin_high_measured", "on_vout_high_measured"}
                 => signal_frequency = f_high

\* C21: in every flow that measures a source voltage (the manual flow and the
\* vin_low and vin_high steps of the sweep) a source reading below the
\* 0.0001 V noise floor aborts the session to IDLE and is not stored.
C21_NoiseFloorAborts ==
    [][\A v \in RmsValues :
          (/\ v < VIN_MIN
           /\ \/ on_vin_rms_measured(v)
              \/ on_vin_low_measured(v)
              \/ on_vin_high_measured(v))
          => /\ measurement_state' = "IDLE"
             /\ readings' = AllNone]_vars

\* The sweep cannot be analysed with vout_high = v: a reading is missing or
\* vin <= vout at one of the two frequencies.
SweepInvalid(v) ==
    \/ measured_vin_low = None
    \/ measured_vout_low = None
    \/ measured_vin_high = None
    \/ Val(measured_vin_low) <= Val(measured_vout_low)
    \/ Val(measured_vin_high) <= v

\* C22: in the frequency sweep, if vin <= vout at either frequency or one of
\* the four readings is missing, the final analysis shows ERR, never a
\* component label, and the session returns to IDLE.
C22_InvalidSweepIsError ==
    [][\A v \in RmsValues :
          (on_vout_high_measured(v) /\ SweepInvalid(v))
          => /\ result_label' = Label("ERR")
             /\ measurement_state' = "IDLE"]_vars

C22_SweepFailed ==
    /\ result_label = Label("ERR")
    /\ status_label = "Measurement error. Check connections."
    /\ measurement_state = "IDLE"
    /\ current_mode = "AUTO"

\* C23: in state IDLE all six captured readings are None, also after a mode
\* selection during a session and after late completion callbacks.
C23_IdleHasNoReadings == measurement_state = "IDLE" => readings = AllNone

C23_IdleAfterLateCallback ==
    /\ measurement_state = "IDLE"
    /\ readings = AllNone
    /\ status_label = "Error: Vin invalid. Restarting."

\* C24: a measurement task is launched only while the signal generator is
\* enabled, also when the generator was turned off in the middle of a session.
C24_LaunchOnlyWhileGenerating ==
    [][(on_action_button_clicked /\ workers' # workers)
        => generating_signal]_vars

\* C25: for phases vin_phase and vout_phase in (-180, 180] the normalized
\* difference computed in on_vout_phase_measured lies in (-180, 180]: above
\* -180 and at most 180.
C25_NormalizedHalfOpen ==
    [][\A v \in PhaseValues :
          (on_vout_phase_measured(v) /\ measured_vin_phase # None)
          => /\ NormalizePhase(v - Val(measured_vin_phase)) > -180
             /\ NormalizePhase(v - Val(measured_vin_phase)) <= 180]_vars

\* The generator writes a chunk in this step, after an earlier one.
NextChunkWritten ==
    /\ _generate_signal_target
    /\ signal_thread = "write"
    /\ output_chunk # None

\* C27: consecutive chunks of the generator are phase-continuous: the phase
\* of the first sample of chunk k+1 is the phase reached at the end of chunk
\* k, for every frequency in 20..20000 Hz.
C27_PhaseContinuousChunks ==
    [][NextChunkWritten
        => Val(output_chunk').first = Val(output_chunk).next]_vars

\* A call of get_stable_rms has returned.
Returned == stable_rms # None /\ Val(stable_rms).pc = "returned"

\* n is duration * RATE / CHUNK rounded up, the duration d in tenths.
IsCeil(n, d) ==
    /\ (n - 1) * CHUNK * 10 < RATE * d
    /\ RATE * d <= n * CHUNK * 10

\* n is duration * RATE / CHUNK rounded down.
IsFloor(n, d) ==
    /\ n * CHUNK * 10 <= RATE * d
    /\ RATE * d < (n + 1) * CHUNK * 10

\* C26: get_stable_rms(durationSeconds) reads exactly
\* ceil(durationSeconds * sampleRate / chunkSize) chunks (87 for 2 s) and no
\* chunk when durationSeconds <= 0.
C26_ChunksRoundedUp ==
    Returned
    => LET d == Val(stable_rms).duration_seconds
           n == Val(stable_rms).readings
       IN  /\ d > 0 => IsCeil(n, d)
           /\ d = 20 => n = 87
           /\ d <= 0 => n = 0

\* C26 as amended: get_stable_rms(durationSeconds) reads exactly
\* floor(durationSeconds * sampleRate / chunkSize) chunks (86 for 2 s) and
\* no chunk when durationSeconds <= 0.
C26_ChunksRoundedDown ==
    Returned
    => LET d == Val(stable_rms).duration_seconds
           n == Val(stable_rms).readings
       IN  /\ d > 0 => IsFloor(n, d)
           /\ d = 20 => n = 86
           /\ d <= 0 => n = 0

C26_TwoSecondsRead ==
    /\ Returned
    /\ Val(stable_rms).duration_seconds = 20
    /\ Val(stable_rms).readings = 86

====
